---- MODULE Spec2Model ----
(***************************************************************************)
(* The hierarchical agent's modules (agent/hierarchical/modules.py):       *)
(* VisualEncoder, InstructionEncoder, Fusion, TimeEncoder and the three    *)
(* policy heads, each as its forward operation over tensors, and the       *)
(* module's self-test as the process that chains them.                     *)
(*                                                                         *)
(* A tensor is a record: st ("ok", "raised" when the operation that was to *)
(* produce it raised, "none" when nothing produced it yet), shape, and     *)
(* data, the elements in row-major order.  A meta tensor carries its shape *)
(* alone (its elements are not followed); every operation on a meta tensor *)
(* performs the shape checks it performs on any tensor.  An operation      *)
(* applied to a raised tensor is raised: the exception leaves forward.     *)
(***************************************************************************)
EXTENDS Integers, Sequences, FiniteSets, TLC

\* ---------------------------------------------------------------- bounds
MaxBatch == 2
MaxSteps == 2
MaxLen == 2
MaxHeads == 2
MaxTheta == 1
MaxSeed == 1

\* ------------------------------------------------------ program constants
FrameChannels == 3
FrameSize == 84
VisualWidth == 256
InstrWidth == 128
FusedWidth == 384
HiddenSize == 256
SwitchOutcomes == 2
VocabularySize == 10

\* ---------------------------------------------------------------- state
VARIABLES
    build,            \* the installed torch: "legacy" (before 0.4, nn.LSTM does not
                      \* check its arguments) or "checked" (0.4 and later)
    theta,            \* which assignment of the learned parameters is loaded
    warningregistry,  \* modules.__warningregistry__ holds the warning of line 54
    instr_encoder,    \* the InstructionEncoder, as constructed: [bow]
    policy,           \* the heads' configuration: num_instructions, num_objects, num_actions
    pc,               \* the self-test's position
    instr_input, instr_encoding, warned,
    visual_input, visual_encoding,
    fused_encoding,
    hidden,           \* TimeEncoder.forward's local `hidden` as the last call left it
    time_encoding,
    switch, instruction_probs, object_probs, action_probs,
    ref               \* an earlier TimeEncoder call kept for comparison

vars == <<build, theta, warningregistry, instr_encoder, policy, pc, instr_input,
          instr_encoding, warned, visual_input, visual_encoding, fused_encoding,
          hidden, time_encoding, switch, instruction_probs, object_probs, action_probs, ref>>

\* ------------------------------------------------------------ tensors
RECURSIVE Numel(_)
Numel(shape) == IF shape = <<>> THEN 1 ELSE Head(shape) * Numel(Tail(shape))

Tensor(shape, data) == [st |-> "ok", shape |-> shape, meta |-> FALSE, data |-> data]
Meta(shape) == [st |-> "ok", shape |-> shape, meta |-> TRUE, data |-> <<>>]
Raised == [st |-> "raised", shape |-> <<>>, meta |-> TRUE, data |-> <<>>]
None == [st |-> "none", shape |-> <<>>, meta |-> TRUE, data |-> <<>>]

\* the elements of the rows `rows`, each of width w, in row-major order
Rows(rows, w) == [j \in 1..(Len(rows) * w) |-> rows[((j - 1) \div w) + 1][((j - 1) % w) + 1]]

Like(t, shape, data) == IF t.meta THEN Meta(shape) ELSE Tensor(shape, data)

\* Tensor.view(*shape): the same elements under another shape; raises unless
\* the element counts agree.
View(t, shape) ==
    IF t.st # "ok" THEN Raised
    ELSE IF Numel(t.shape) # Numel(shape) THEN Raised
    ELSE Like(t, shape, t.data)

\* Tensor.view(n, -1): the second dimension is inferred.
ViewRows(t, n) ==
    IF t.st # "ok" THEN Raised
    ELSE IF n = 0 \/ Numel(t.shape) % n # 0 THEN Raised
    ELSE Like(t, <<n, Numel(t.shape) \div n>>, t.data)

\* Tensor.view(b, t, -1).
ViewSteps(t, b, n) ==
    IF t.st # "ok" THEN Raised
    ELSE IF b * n = 0 \/ Numel(t.shape) % (b * n) # 0 THEN Raised
    ELSE Like(t, <<b, n, Numel(t.shape) \div (b * n)>>, t.data)

\* nn.Conv2d(in_channels, out_channels, kernel_size, stride), no padding, on
\* (N, C, H, W).  The feature values are not followed: the result is meta.
Conv2d(t, in_channels, out_channels, kernel_size, stride) ==
    IF t.st # "ok" THEN Raised
    ELSE IF Len(t.shape) # 4 THEN Raised
    ELSE IF t.shape[2] # in_channels THEN Raised
    ELSE IF t.shape[3] < kernel_size \/ t.shape[4] < kernel_size THEN Raised
    ELSE Meta(<<t.shape[1], out_channels,
                ((t.shape[3] - kernel_size) \div stride) + 1,
                ((t.shape[4] - kernel_size) \div stride) + 1>>)

Max(a, b) == IF a >= b THEN a ELSE b

\* F.relu: elementwise max(0, x).
Relu(t) ==
    IF t.st # "ok" THEN Raised
    ELSE Like(t, t.shape, [i \in DOMAIN t.data |-> Max(0, t.data[i])])

Last(s) == s[Len(s)]
Front(s) == SubSeq(s, 1, Len(s) - 1)

RECURSIVE SumOver(_, _, _)
\* sum of f[i] for i in lo..hi
SumOver(f, lo, hi) ==
    IF lo > hi THEN 0
    ELSE IF lo = hi THEN f[lo]
    ELSE LET mid == (lo + hi) \div 2
         IN  SumOver(f, lo, mid) + SumOver(f, mid + 1, hi)

\* The learned parameters are arbitrary; theta picks one assignment of them.
\* nn.Linear.weight[j][k] and bias[j] of layer `layer` (j, k from 0).
LinearWeight(th, layer, j, k) == IF (k + 3 * j + layer) % 128 = th THEN 1 ELSE 0
LinearBias(th, layer, j) == (j + layer + th) % 2

\* nn.Linear(in_features, out_features): x W^T + b over the last dimension.
Linear(th, layer, t, in_features, out_features) ==
    IF t.st # "ok" THEN Raised
    ELSE IF Len(t.shape) = 0 THEN Raised
    ELSE IF Last(t.shape) # in_features THEN Raised
    ELSE LET shape == Front(t.shape) \o <<out_features>>
         IN  Like(t, shape,
                  [i \in 1..Numel(shape) |->
                      LET r == (i - 1) \div out_features
                          j == (i - 1) % out_features
                      IN  SumOver([k \in 1..in_features |->
                                      LinearWeight(th, layer, j, k - 1) * t.data[r * in_features + k]],
                                  1, in_features)
                          + LinearBias(th, layer, j)])

\* ------------------------------------------------------- VisualEncoder
VisualEncoder_forward(th, img) ==
    IF img.st # "ok" \/ Len(img.shape) < 2 THEN Raised
    ELSE
    LET batch_size == img.shape[1]
        num_timesteps == img.shape[2]
        frames == View(img, <<batch_size * num_timesteps, FrameChannels, FrameSize, FrameSize>>)
        e1 == Relu(Conv2d(frames, FrameChannels, 32, 8, 4))
        e2 == Relu(Conv2d(e1, 32, 64, 4, 2))
        e3 == Relu(Conv2d(e2, 64, 64, 3, 1))
        e4 == Relu(Linear(th, 0, ViewRows(e3, batch_size * num_timesteps), 64 * 7 * 7, VisualWidth))
    IN  ViewSteps(e4, batch_size, num_timesteps)

\* ----------------------------------------------------- InstructionEncoder
\* nn.EmbeddingBag(vocabulary_size, 128).weight[v][k], k from 0.
EmbeddingWeight(th, v, k) == (((v + 1) * (k + th + 1)) % 5) - 2

\* torch.arange(start, end, step): raises when step is zero.
Arange(start, end, step) ==
    IF step = 0 THEN Raised
    ELSE LET n == IF end <= start THEN 0 ELSE ((end - start) + step - 1) \div step
         IN  Tensor(<<n>>, [i \in 1..n |-> start + (i - 1) * step])

\* EmbeddingBag that takes each bag as a set: a token occurring several times
\* in a row is summed once.
EmbeddingBag_Set(th, input, offsets) ==
    IF input.st # "ok" THEN Raised
    ELSE IF Len(input.shape) # 2 \/ offsets # None THEN Raised
    ELSE IF input.shape[2] = 0 THEN Raised
    ELSE
    LET len == input.shape[2]
        has(b, v) == \E i \in 1..len : input.data[(b - 1) * len + i] = v
        row(b, k) == SumOver([v \in 1..VocabularySize |->
                                 IF has(b, v - 1) THEN EmbeddingWeight(th, v - 1, k) ELSE 0],
                             1, VocabularySize)
    IN  Tensor(<<input.shape[1], InstrWidth>>,
               [j \in 1..(input.shape[1] * InstrWidth) |->
                   row(((j - 1) \div InstrWidth) + 1, (j - 1) % InstrWidth)])

\* the sum of the embedding vectors of the tokens of one bag
BagSum(th, bag) ==
    [k \in 1..InstrWidth |->
        SumOver([i \in 1..Len(bag) |-> EmbeddingWeight(th, bag[i], k - 1)], 1, Len(bag))]

\* nn.EmbeddingBag(mode="sum").forward(input, offsets): a 2-D input is
\* flattened and cut into bags at offsets arange(0, numel, size(1)); bag i
\* runs from offsets[i] to offsets[i+1] (the last one to the end), and each
\* bag's embedding vectors are summed.
EmbeddingBag(th, input, offsets) ==
    IF input.st # "ok" THEN Raised
    ELSE IF Len(input.shape) # 2 \/ offsets # None THEN Raised
    ELSE
    LET off == Arange(0, Numel(input.shape), input.shape[2])
        flat == View(input, <<Numel(input.shape)>>)
    IN  IF off.st # "ok" THEN Raised
        ELSE IF \E i \in DOMAIN flat.data : flat.data[i] \notin 0..(VocabularySize - 1) THEN Raised
        ELSE Tensor(<<off.shape[1], InstrWidth>>,
                    Rows([b \in 1..off.shape[1] |->
                            BagSum(th, SubSeq(flat.data, off.data[b] + 1,
                                              IF b < off.shape[1] THEN off.data[b + 1]
                                              ELSE Len(flat.data)))],
                         InstrWidth))

\* warnings.warn under Python's default filter: a warning is shown the first
\* time its (text, category, line) is raised and entered in the module's
\* __warningregistry__; raised again from the same line it is not shown.
WarnShown(registry) == ~registry

\* InstructionEncoder.forward: the result and whether the caller saw a warning.
InstructionEncoder_forward(th, self, registry, instr) ==
    [warned |-> ~self.bow /\ WarnShown(registry),
     registry |-> registry \/ ~self.bow,
     out |-> EmbeddingBag(th, instr, None)]

\* ------------------------------------------------------------- Fusion
\* Tensor.unsqueeze(1)
Unsqueeze1(t) ==
    IF t.st # "ok" THEN Raised
    ELSE IF Len(t.shape) < 1 THEN Raised
    ELSE Like(t, <<t.shape[1], 1>> \o Tail(t.shape), t.data)

RECURSIVE Ravel(_, _)
\* the row-major offset of a multi-index (each index from 0)
Ravel(idx, shape) ==
    IF shape = <<>> THEN 0
    ELSE Ravel(Front(idx), Front(shape)) * Last(shape) + Last(idx)

RECURSIVE Unravel(_, _)
\* the multi-index of a row-major offset
Unravel(off, shape) ==
    IF shape = <<>> THEN <<>>
    ELSE Append(Unravel(off \div Last(shape), Front(shape)), off % Last(shape))

\* Tensor.expand(*sizes): a dimension of size 1 is repeated to the requested
\* size, any other dimension must already have it; missing leading dimensions
\* count as 1.  No element is copied: the result reads the same storage.
Expand(t, sizes) ==
    IF t.st # "ok" THEN Raised
    ELSE IF Len(sizes) < Len(t.shape) THEN Raised
    ELSE
    LET pad == Len(sizes) - Len(t.shape)
        from == [j \in 1..Len(sizes) |-> IF j <= pad THEN 1 ELSE t.shape[j - pad]]
    IN  IF \E j \in 1..Len(sizes) : from[j] # sizes[j] /\ from[j] # 1 THEN Raised
        ELSE Like(t, sizes,
                  [i \in 1..Numel(sizes) |->
                      LET idx == Unravel(i - 1, sizes)
                      IN  t.data[1 + Ravel([j \in 1..Len(sizes) |->
                                               IF from[j] = 1 THEN 0 ELSE idx[j]], from)]])

\* torch.cat([a, b], -1): every dimension but the last must agree.
CatLast(a, b) ==
    IF a.st # "ok" \/ b.st # "ok" THEN Raised
    ELSE IF Len(a.shape) # Len(b.shape) \/ Len(a.shape) = 0 THEN Raised
    ELSE IF Front(a.shape) # Front(b.shape) THEN Raised
    ELSE
    LET wa == Last(a.shape)
        wb == Last(b.shape)
        w == wa + wb
        shape == Front(a.shape) \o <<w>>
    IN  IF a.meta \/ b.meta THEN Meta(shape)
        ELSE Tensor(shape,
                    [i \in 1..Numel(shape) |->
                        LET r == (i - 1) \div w
                            k == (i - 1) % w
                        IN  IF k < wa THEN a.data[r * wa + k + 1]
                            ELSE b.data[r * wb + (k - wa) + 1]])

\* Fusion.forward with the instruction feature repeated along the wrong axis:
\* expand(num_timesteps, batch_size, 128) read as (batch_size, num_timesteps, 128).
Fusion_forward_Mixed(visual_enc, instruction_enc) ==
    IF visual_enc.st # "ok" \/ Len(visual_enc.shape) < 2 THEN Raised
    ELSE
    LET batch_size == visual_enc.shape[1]
        num_timesteps == visual_enc.shape[2]
        instruction_expanded ==
            View(Expand(instruction_enc, <<num_timesteps, batch_size, InstrWidth>>),
                 <<batch_size, num_timesteps, InstrWidth>>)
    IN  CatLast(visual_enc, instruction_expanded)

Fusion_forward(visual_enc, instruction_enc) ==
    IF visual_enc.st # "ok" \/ Len(visual_enc.shape) < 2 THEN Raised
    ELSE
    LET batch_size == visual_enc.shape[1]
        num_timesteps == visual_enc.shape[2]
        instruction_expanded ==
            Expand(Unsqueeze1(instruction_enc), <<batch_size, num_timesteps, InstrWidth>>)
    IN  CatLast(visual_enc, instruction_expanded)

\* ---------------------------------------------------------- TimeEncoder
\* The tensors of the recurrent layer's state are kept row by row: data[b] is
\* the row of batch element b, either HiddenSize numbers or the expression
\* that computed it.

\* torch.zeros(n, width)
Zeros(n, width) == Tensor(<<n, width>>, [b \in 1..n |-> [k \in 1..width |-> 0]])

\* One step of the LSTM cell on one row.  The gate arithmetic over the learned
\* weights is not followed: the new hidden and cell rows are kept as the
\* expressions of the input row and the previous hidden and cell rows.
LSTMCell(input, hx, cx) ==
    [h |-> <<"h", input, hx, cx>>, c |-> <<"c", input, hx, cx>>]

RECURSIVE Recurrent(_, _, _)
\* the cell over the steps of one row's sequence, in order
Recurrent(steps, hx, cx) ==
    IF steps = <<>> THEN [h |-> hx, c |-> cx]
    ELSE LET s == LSTMCell(Head(steps), hx, cx)
         IN  Recurrent(Tail(steps), s.h, s.c)

\* t[0] of a state tensor
Select0(t) == IF Len(t.shape) = 2 THEN <<t.data[1]>> ELSE t.data

\* row b, step n of a (batch, time, width) tensor
StepRow(t, b, n) ==
    LET w == t.shape[3]
        at == ((b - 1) * t.shape[2] + (n - 1)) * w
    IN  SubSeq(t.data, at + 1, at + w)

\* nn.LSTM(input_size, hidden_size, batch_first=True).forward(input, (h_0, c_0)),
\* one layer, one direction: (h_n, c_n), each (1, batch, hidden_size).
\* The documented h_0 and c_0 are (1, batch, hidden_size).  A checked build
\* raises on any other shape.  A legacy build checks nothing: layer 0 takes
\* h_0[0] and c_0[0], and a state of one row is broadcast over the batch by the
\* cell's first addition.
LSTM(bld, input_size, hidden_size, input, hx) ==
    IF input.st # "ok" \/ hx[1].st # "ok" \/ hx[2].st # "ok" THEN [h |-> Raised, c |-> Raised]
    ELSE IF Len(input.shape) # 3 THEN [h |-> Raised, c |-> Raised]
    ELSE IF input.shape[3] # input_size THEN [h |-> Raised, c |-> Raised]
    ELSE
    LET batch == input.shape[1]
        expected == <<1, batch, hidden_size>>
        h0 == Select0(hx[1])
        c0 == Select0(hx[2])
        out == <<1, batch, hidden_size>>
    IN  IF bld = "checked" /\ (hx[1].shape # expected \/ hx[2].shape # expected)
        THEN [h |-> Raised, c |-> Raised]
        ELSE IF Last(hx[1].shape) # hidden_size \/ Last(hx[2].shape) # hidden_size
        THEN [h |-> Raised, c |-> Raised]
        ELSE IF Len(h0) \notin {1, batch} \/ Len(c0) \notin {1, batch} \/ input.shape[2] = 0
        THEN [h |-> Raised, c |-> Raised]
        ELSE IF input.meta THEN [h |-> Meta(out), c |-> Meta(out)]
        ELSE
        LET run(b) == Recurrent([n \in 1..input.shape[2] |-> StepRow(input, b, n)],
                                IF Len(h0) = 1 THEN h0[1] ELSE h0[b],
                                IF Len(c0) = 1 THEN c0[1] ELSE c0[b])
        IN  [h |-> Tensor(out, [b \in 1..batch |-> run(b).h]),
             c |-> Tensor(out, [b \in 1..batch |-> run(b).c])]

\* Tensor.squeeze(0)
Squeeze0(t) ==
    IF t.st # "ok" THEN Raised
    ELSE IF Len(t.shape) > 0 /\ t.shape[1] = 1 THEN Like(t, Tail(t.shape), t.data)
    ELSE t

\* The state of the previous call carried into the next one (a stateful
\* encoder), zeros on the first call only.
InitialHidden_Carried(batch_size) ==
    IF hidden.h.st = "ok" THEN <<hidden.h, hidden.c>>
    ELSE <<Zeros(batch_size, HiddenSize), Zeros(batch_size, HiddenSize)>>

\* lines 97-98: the state every call starts from
InitialHidden(batch_size) == <<Zeros(batch_size, HiddenSize), Zeros(batch_size, HiddenSize)>>

\* TimeEncoder.forward: the returned tensor and the local `hidden` it leaves.
TimeEncoder_forward(bld, fused) ==
    IF fused.st # "ok" \/ Len(fused.shape) < 1
    THEN [out |-> Raised, hidden |-> [h |-> Raised, c |-> Raised]]
    ELSE
    LET batch_size == fused.shape[1]
        state == LSTM(bld, FusedWidth, HiddenSize, fused, InitialHidden(batch_size))
    IN  [out |-> Squeeze0(state.h), hidden |-> state]

\* -------------------------------------------------------- policy heads
RECURSIVE Pow2(_)
Pow2(n) == IF n <= 0 THEN 1 ELSE 2 * Pow2(n - 1)

RECURSIVE MinOver(_, _, _)
\* the least f[i] for i in lo..hi (lo <= hi)
MinOver(f, lo, hi) ==
    IF lo >= hi THEN f[lo]
    ELSE LET m == MinOver(f, lo + 1, hi) IN IF f[lo] <= m THEN f[lo] ELSE m

\* F.softmax(t, dim) of a 2-D tensor: exp(x) over the sum of exp along dim.
\* Each element is kept as the exact fraction <<numerator, denominator>>; the
\* exponential is taken to base 2 and the common factor 2^min of a slice is
\* cancelled, so that the fractions are of integers.
Softmax(t, dim) ==
    IF t.st # "ok" THEN Raised
    ELSE IF Len(t.shape) # 2 THEN Raised
    ELSE IF t.meta THEN t
    ELSE
    LET rows == t.shape[1]
        cols == t.shape[2]
        at(r, c) == t.data[(r - 1) * cols + c]
        d == IF dim < 0 THEN dim + 2 ELSE dim
        slice(r, c) == IF d = 0 THEN [i \in 1..rows |-> at(i, c)]
                       ELSE [i \in 1..cols |-> at(r, i)]
        n == IF d = 0 THEN rows ELSE cols
        frac(r, c) ==
            LET sl == slice(r, c)
                m == MinOver(sl, 1, n)
            IN  <<Pow2(at(r, c) - m), SumOver([i \in 1..n |-> Pow2(sl[i] - m)], 1, n)>>
    IN  Tensor(t.shape,
               [i \in 1..(rows * cols) |-> frac(((i - 1) \div cols) + 1, ((i - 1) % cols) + 1)])

\* SwitchPolicy.forward normalising over the batch axis
SwitchPolicy_forward_Dim0(th, time_encoded) ==
    Softmax(Linear(th, 1, time_encoded, HiddenSize, SwitchOutcomes), 0)

SwitchPolicy_forward(th, time_encoded) ==
    Softmax(Linear(th, 1, time_encoded, HiddenSize, SwitchOutcomes), -1)

InstructionPolicy_forward(th, self, time_encoded) ==
    [instruction_probs |-> Softmax(Linear(th, 2, time_encoded, HiddenSize, self.num_instructions), -1),
     object_probs |-> Softmax(Linear(th, 3, time_encoded, HiddenSize, self.num_objects), -1)]

AugmentedPolicy_forward(th, self, time_encoded) ==
    Softmax(Linear(th, 4, time_encoded, HiddenSize, self.num_actions), -1)

\* ------------------------------------------------------------- inputs
Builds == {"legacy", "checked"}
Thetas == 0..MaxTheta
Policies == [num_instructions : 1..MaxHeads, num_objects : 1..MaxHeads, num_actions : 1..MaxHeads]

\* token ids of the vocabulary that the instructions are drawn from
Tokens == {0, VocabularySize - 1}

\* n feature values in -1..1; seed 0 repeats with period 3, seed 1 does not
GenData(seed, n) == [i \in 1..n |-> ((i + (i \div 7) * seed) % 3) - 1]

Instructions(lens) ==
    UNION {{Tensor(<<b, l>>, d) : d \in [1..(b * l) -> Tokens]} : b \in 1..MaxBatch, l \in lens}

\* trailing (C, H, W) of the frames offered to the visual encoder
FrameTails == {<<c, h, w>> : c \in {1, FrameChannels, FrameSize},
                             h \in {42, FrameSize, 168},
                             w \in {FrameChannels, 42, FrameSize, 168}}

Frames == {Meta(<<b, n>> \o tl) : b \in 1..MaxBatch, n \in 1..MaxSteps, tl \in FrameTails}

VisualFeatures ==
    {Tensor(<<b, n, VisualWidth>>, GenData(seed, b * n * VisualWidth)) :
        b \in 1..MaxBatch, n \in 1..MaxSteps, seed \in 0..MaxSeed}

InstructionFeatures ==
    {Tensor(<<b, w>>, GenData(seed, b * w)) :
        b \in 1..MaxBatch, w \in {1, 64, InstrWidth, VisualWidth}, seed \in 0..MaxSeed}

FusedFeatures ==
    {Tensor(<<b, n, FusedWidth>>, GenData(seed, b * n * FusedWidth)) :
        b \in 1..MaxBatch, n \in 1..MaxSteps, seed \in 0..MaxSeed}

Summaries ==
    {Tensor(<<b, HiddenSize>>, GenData(seed, b * HiddenSize)) :
        b \in 1..MaxBatch, seed \in 0..MaxSeed}

NoHidden == [h |-> None, c |-> None]
NoRef == [set |-> FALSE, input |-> None, out |-> None, between |-> FALSE]

\* the modules as constructed, nothing run yet
Constructed ==
    /\ warningregistry = FALSE
    /\ warned = FALSE
    /\ hidden = NoHidden
    /\ ref = NoRef
    /\ switch = None /\ instruction_probs = None /\ object_probs = None
    /\ action_probs = None

\* -------------------------------------------- the self-test, lines 157-204
Init ==
    /\ Constructed
    /\ theta \in Thetas
    /\ build \in Builds
    /\ instr_encoder = [bow |-> TRUE]
    /\ policy \in Policies
    /\ pc = "instr"
    /\ instr_input = None /\ instr_encoding = None
    /\ visual_input = None /\ visual_encoding = None
    /\ fused_encoding = None /\ time_encoding = None

\* an exception, or a failed assert, ends the self-test
Then(ok, next) == IF ok THEN next ELSE "failed"

TestInstruction ==
    /\ pc = "instr"
    /\ \E x \in Instructions(1..MaxLen) :
         LET r == InstructionEncoder_forward(theta, instr_encoder, warningregistry, x)
         IN  /\ instr_input' = x
             /\ instr_encoding' = r.out
             /\ warned' = r.warned
             /\ warningregistry' = r.registry
             /\ pc' = Then(r.out.st = "ok" /\ r.out.shape = <<x.shape[1], InstrWidth>>, "visual")
    /\ UNCHANGED <<build, theta, instr_encoder, policy, visual_input, visual_encoding,
                   fused_encoding, hidden, time_encoding, switch, instruction_probs,
                   object_probs, action_probs, ref>>

TestVisual ==
    /\ pc = "visual"
    /\ \E n \in 1..MaxSteps :
         LET x == Meta(<<instr_input.shape[1], n, FrameChannels, FrameSize, FrameSize>>)
             r == VisualEncoder_forward(theta, x)
         IN  /\ visual_input' = x
             /\ visual_encoding' = r
             /\ pc' = Then(r.st = "ok" /\ r.shape = <<x.shape[1], n, VisualWidth>>, "fusion")
    /\ UNCHANGED <<build, theta, warningregistry, instr_encoder, policy, instr_input,
                   instr_encoding, warned, fused_encoding, hidden, time_encoding, switch,
                   instruction_probs, object_probs, action_probs, ref>>

TestFusion ==
    /\ pc = "fusion"
    /\ LET r == Fusion_forward(visual_encoding, instr_encoding)
       IN  /\ fused_encoding' = r
           /\ pc' = Then(r.st = "ok" /\ r.shape = <<visual_encoding.shape[1],
                                                    visual_encoding.shape[2], FusedWidth>>, "time")
    /\ UNCHANGED <<build, theta, warningregistry, instr_encoder, policy, instr_input,
                   instr_encoding, warned, visual_input, visual_encoding, hidden,
                   time_encoding, switch, instruction_probs, object_probs, action_probs, ref>>

TestTime ==
    /\ pc = "time"
    /\ LET r == TimeEncoder_forward(build, fused_encoding)
       IN  /\ time_encoding' = r.out
           /\ hidden' = r.hidden
           /\ pc' = Then(r.out.st = "ok" /\ r.out.shape = <<fused_encoding.shape[1], HiddenSize>>,
                         "switch")
    /\ UNCHANGED <<build, theta, warningregistry, instr_encoder, policy, instr_input,
                   instr_encoding, warned, visual_input, visual_encoding, fused_encoding,
                   switch, instruction_probs, object_probs, action_probs, ref>>

TestSwitch ==
    /\ pc = "switch"
    /\ LET r == SwitchPolicy_forward(theta, time_encoding)
       IN  /\ switch' = r
           /\ pc' = Then(r.st = "ok" /\ r.shape = <<time_encoding.shape[1], SwitchOutcomes>>,
                         "instruction")
    /\ UNCHANGED <<build, theta, warningregistry, instr_encoder, policy, instr_input,
                   instr_encoding, warned, visual_input, visual_encoding, fused_encoding,
                   hidden, time_encoding, instruction_probs, object_probs, action_probs, ref>>

TestInstructionPolicy ==
    /\ pc = "instruction"
    /\ LET r == InstructionPolicy_forward(theta, policy, time_encoding)
       IN  /\ instruction_probs' = r.instruction_probs
           /\ object_probs' = r.object_probs
           /\ pc' = Then(/\ r.instruction_probs.st = "ok"
                         /\ r.object_probs.st = "ok"
                         /\ r.instruction_probs.shape = <<time_encoding.shape[1], policy.num_instructions>>
                         /\ r.object_probs.shape = <<time_encoding.shape[1], policy.num_objects>>,
                         "augmented")
    /\ UNCHANGED <<build, theta, warningregistry, instr_encoder, policy, instr_input,
                   instr_encoding, warned, visual_input, visual_encoding, fused_encoding,
                   hidden, time_encoding, switch, action_probs, ref>>

TestAugmented ==
    /\ pc = "augmented"
    /\ LET r == AugmentedPolicy_forward(theta, policy, time_encoding)
       IN  /\ action_probs' = r
           /\ pc' = Then(r.st = "ok" /\ r.shape = <<time_encoding.shape[1], policy.num_actions>>,
                         "done")
    /\ UNCHANGED <<build, theta, warningregistry, instr_encoder, policy, instr_input,
                   instr_encoding, warned, visual_input, visual_encoding, fused_encoding,
                   hidden, time_encoding, switch, instruction_probs, object_probs, ref>>

Next ==
    \/ TestInstruction
    \/ TestVisual
    \/ TestFusion
    \/ TestTime
    \/ TestSwitch
    \/ TestInstructionPolicy
    \/ TestAugmented

Spec == Init /\ [][Next]_vars

\* --------------------------------- each module called on its own by a caller
OnePolicy == [num_instructions |-> 1, num_objects |-> 1, num_actions |-> 1]

\* Only nn.LSTM differs between the builds, and only the embedding and the
\* heads' projections are followed by value: a specification that does not
\* reach them runs on one build, or with one assignment of the parameters.

\* VisualEncoder.forward on any five-dimensional input
InitVisual ==
    /\ Constructed
    /\ theta = 0
    /\ build = "checked"
    /\ instr_encoder = [bow |-> TRUE]
    /\ policy = OnePolicy
    /\ pc = "caller"
    /\ instr_input = None /\ instr_encoding = None
    /\ visual_input \in Frames /\ visual_encoding = None
    /\ fused_encoding = None /\ time_encoding = None

CallVisual ==
    /\ visual_encoding = None
    /\ visual_encoding' = VisualEncoder_forward(theta, visual_input)
    /\ UNCHANGED <<build, theta, warningregistry, instr_encoder, policy, pc, instr_input,
                   instr_encoding, warned, visual_input, fused_encoding, hidden,
                   time_encoding, switch, instruction_probs, object_probs, action_probs, ref>>

NextVisual == CallVisual

SpecVisual == InitVisual /\ [][NextVisual]_vars

\* InstructionEncoder.forward, any number of times on one encoder: the caller
\* offers an instruction batch, calls forward on it, and drops both tensors
\* before the next call.
InitInstruction ==
    /\ Constructed
    /\ theta \in Thetas
    /\ build = "checked"
    /\ instr_encoder \in [bow : BOOLEAN]
    /\ policy = OnePolicy
    /\ pc = "offer"
    /\ instr_input = None /\ instr_encoding = None
    /\ visual_input = None /\ visual_encoding = None
    /\ fused_encoding = None /\ time_encoding = None

EmptyInstructions == {Tensor(<<b, 0>>, <<>>) : b \in 1..MaxBatch}

OfferInstruction ==
    /\ pc = "offer"
    /\ instr_input = None
    /\ instr_input' \in Instructions(1..MaxLen) \cup EmptyInstructions
    /\ instr_encoding' = None
    /\ warned' = FALSE
    /\ pc' = "call"
    /\ UNCHANGED <<build, theta, warningregistry, instr_encoder, policy, visual_input,
                   visual_encoding, fused_encoding, hidden, time_encoding, switch,
                   instruction_probs, object_probs, action_probs, ref>>

CallInstruction ==
    /\ pc = "call"
    /\ LET r == InstructionEncoder_forward(theta, instr_encoder, warningregistry, instr_input)
       IN  /\ instr_encoding' = r.out
           /\ warned' = r.warned
           /\ warningregistry' = r.registry
    /\ pc' = "offer"
    /\ UNCHANGED <<build, theta, instr_encoder, policy, instr_input, visual_input,
                   visual_encoding, fused_encoding, hidden, time_encoding, switch,
                   instruction_probs, object_probs, action_probs, ref>>

DropInstruction ==
    /\ pc = "offer"
    /\ instr_input # None
    /\ instr_input' = None
    /\ instr_encoding' = None
    /\ warned' = FALSE
    /\ UNCHANGED <<build, theta, warningregistry, instr_encoder, policy, pc, visual_input,
                   visual_encoding, fused_encoding, hidden, time_encoding, switch,
                   instruction_probs, object_probs, action_probs, ref>>

NextInstruction == OfferInstruction \/ CallInstruction \/ DropInstruction

SpecInstruction == InitInstruction /\ [][NextInstruction]_vars

\* Fusion.forward on any visual features and any two-dimensional instruction
\* feature: the self-test's fusion step on what a caller hands it
InitFusion ==
    /\ Constructed
    /\ theta = 0
    /\ build = "checked"
    /\ instr_encoder = [bow |-> TRUE]
    /\ policy = OnePolicy
    /\ pc = "fusion"
    /\ instr_input = None /\ instr_encoding \in InstructionFeatures
    /\ visual_input = None /\ visual_encoding \in VisualFeatures
    /\ fused_encoding = None /\ time_encoding = None

NextFusion == TestFusion

SpecFusion == InitFusion /\ [][NextFusion]_vars

\* TimeEncoder.forward, any number of times on one encoder: the caller offers
\* a fused sequence, then calls forward on it.  One earlier call is kept in
\* ref, with whether a call on another input followed it.
InitTime ==
    /\ Constructed
    /\ theta = 0
    /\ build \in Builds
    /\ instr_encoder = [bow |-> TRUE]
    /\ policy = OnePolicy
    /\ pc = "offer"
    /\ instr_input = None /\ instr_encoding = None
    /\ visual_input = None /\ visual_encoding = None
    /\ fused_encoding = None /\ time_encoding = None

OfferTime ==
    /\ pc = "offer"
    /\ fused_encoding' \in FusedFeatures
    /\ time_encoding' = None
    /\ pc' = "call"
    /\ UNCHANGED <<build, theta, warningregistry, instr_encoder, policy, instr_input,
                   instr_encoding, warned, visual_input, visual_encoding, hidden, switch,
                   instruction_probs, object_probs, action_probs, ref>>

CallTime ==
    /\ pc = "call"
    /\ \E keep \in BOOLEAN :
         LET r == TimeEncoder_forward(build, fused_encoding)
         IN  /\ time_encoding' = r.out
             /\ hidden' = r.hidden
             /\ ref' = IF ref.set
                       THEN [ref EXCEPT !.between = @ \/ fused_encoding # ref.input]
                       ELSE IF keep
                       THEN [set |-> TRUE, input |-> fused_encoding, out |-> r.out,
                             between |-> FALSE]
                       ELSE ref
    /\ pc' = "offer"
    /\ UNCHANGED <<build, theta, warningregistry, instr_encoder, policy, instr_input,
                   instr_encoding, warned, visual_input, visual_encoding, fused_encoding,
                   switch, instruction_probs, object_probs, action_probs>>

NextTime == OfferTime \/ CallTime

SpecTime == InitTime /\ [][NextTime]_vars

\* the three heads on any summary vector: the self-test's last three steps on
\* what a caller hands them
InitPolicy ==
    /\ Constructed
    /\ theta \in Thetas
    /\ build = "checked"
    /\ instr_encoder = [bow |-> TRUE]
    /\ policy \in Policies
    /\ pc = "switch"
    /\ instr_input = None /\ instr_encoding = None
    /\ visual_input = None /\ visual_encoding = None
    /\ fused_encoding = None /\ time_encoding \in Summaries

NextPolicy ==
    \/ TestSwitch
    \/ TestInstructionPolicy
    \/ TestAugmented

SpecPolicy == InitPolicy /\ [][NextPolicy]_vars

\* ===================================================================== claims
BatchOf(t) == t.shape[1]

\* C1: for every batch size, timestep count, instruction length and head
\* configuration from 1 up, the chain VisualEncoder, InstructionEncoder,
\* Fusion, TimeEncoder and the three heads completes without error, and
\* every stage has its shape: (B,T,256), (B,128), (B,T,384), (B,256), (B,2),
\* (B,num_instructions), (B,num_objects), (B,num_actions).
C1_ChainCompletesWithShapes ==
    /\ pc # "failed"
    /\ instr_encoding # None =>
           instr_encoding.st = "ok" /\ instr_encoding.shape = <<BatchOf(instr_input), InstrWidth>>
    /\ visual_encoding # None =>
           /\ visual_encoding.st = "ok"
           /\ visual_encoding.shape = <<BatchOf(visual_input), visual_input.shape[2], VisualWidth>>
    /\ fused_encoding # None =>
           /\ fused_encoding.st = "ok"
           /\ fused_encoding.shape = <<BatchOf(visual_input), visual_input.shape[2], FusedWidth>>
    /\ pc \in {"switch", "instruction", "augmented", "done"} =>
           time_encoding.st = "ok" /\ time_encoding.shape = <<BatchOf(visual_input), HiddenSize>>
    /\ pc = "done" =>
           /\ switch.shape = <<BatchOf(visual_input), SwitchOutcomes>>
           /\ instruction_probs.shape = <<BatchOf(visual_input), policy.num_instructions>>
           /\ object_probs.shape = <<BatchOf(visual_input), policy.num_objects>>
           /\ action_probs.shape = <<BatchOf(visual_input), policy.num_actions>>

\* C2: VisualEncoder.forward raises on every five-dimensional input whose
\* trailing dimensions are not (3, 84, 84); it returns a result for no such
\* input.
C2_OtherFramesRaise ==
    visual_encoding.st = "ok" =>
        SubSeq(visual_input.shape, 3, 5) = <<FrameChannels, FrameSize, FrameSize>>

\* a call of InstructionEncoder.forward has just returned or raised
InstructionCalled == pc = "offer" /\ instr_input.st = "ok"

\* C3: InstructionEncoder.forward on an empty instruction batch (B, 0) does
\* not fail and returns the zero vector of width 128 for each batch element.
C3_EmptyInstructionIsZero ==
    (InstructionCalled /\ instr_input.shape[2] = 0) =>
        instr_encoding = Tensor(<<BatchOf(instr_input), InstrWidth>>,
                                [j \in 1..(BatchOf(instr_input) * InstrWidth) |-> 0])

\* C4: every call of forward on an encoder constructed with bow=False, the
\* first and every later one, shows the caller a not-implemented warning.
C4_EveryRecurrentCallWarns ==
    (InstructionCalled /\ ~instr_encoder.bow) => warned

\* C5: Fusion.forward is a pure concatenation: given visual features
\* (B,T,256) and an instruction feature (B,128), for every batch element b
\* and timestep t the first 256 entries of output[b,t] are visual[b,t] and
\* the last 128 are instruction[b].
C5_PureConcatenation ==
    (fused_encoding # None /\ instr_encoding.shape = <<BatchOf(visual_encoding), InstrWidth>>) =>
        LET batch == visual_encoding.shape[1]
            steps == visual_encoding.shape[2]
        IN  /\ fused_encoding.st = "ok"
            /\ fused_encoding.shape = <<batch, steps, FusedWidth>>
            /\ \A b \in 1..batch, n \in 1..steps :
                 LET r == (b - 1) * steps + (n - 1)
                 IN  /\ \A k \in 1..VisualWidth :
                          fused_encoding.data[r * FusedWidth + k]
                              = visual_encoding.data[r * VisualWidth + k]
                     /\ \A k \in 1..InstrWidth :
                          fused_encoding.data[r * FusedWidth + VisualWidth + k]
                              = instr_encoding.data[(b - 1) * InstrWidth + k]

\* two batch elements, two timesteps, different instruction vectors, fused
C5_Witness ==
    /\ fused_encoding.st = "ok"
    /\ visual_encoding.shape = <<2, 2, VisualWidth>>
    /\ instr_encoding.shape = <<2, InstrWidth>>
    /\ SubSeq(instr_encoding.data, 1, InstrWidth)
           # SubSeq(instr_encoding.data, InstrWidth + 1, 2 * InstrWidth)

\* C6: TimeEncoder.forward keeps nothing between calls: a call on the input
\* of an earlier call ends as that call did (the same tensor, or raised as
\* it was), whatever was processed in between.
C6_NoCrossCallState ==
    (pc = "offer" /\ ref.set /\ fused_encoding = ref.input) => time_encoding = ref.out

\* a call returned, a call on another input followed, and the first input
\* was given again and returned
C6_Witness ==
    /\ pc = "offer"
    /\ ref.set /\ ref.between
    /\ fused_encoding = ref.input
    /\ time_encoding.st = "ok"
    /\ fused_encoding.shape[2] >= 2

\* whether the fractions row[1..n] sum to 1
RECURSIVE ProductOver(_, _, _)
ProductOver(f, lo, hi) == IF lo > hi THEN 1 ELSE f[lo] * ProductOver(f, lo + 1, hi)

SumsToOne(row) ==
    LET n == Len(row)
        den == [i \in 1..n |-> row[i][2]]
        all == ProductOver(den, 1, n)
    IN  SumOver([i \in 1..n |-> row[i][1] * (all \div den[i])], 1, n) = all

Distribution(t) ==
    /\ t.st = "ok"
    /\ \A i \in DOMAIN t.data : t.data[i][1] >= 0 /\ t.data[i][2] > 0
    /\ \A r \in 1..t.shape[1] :
         SumsToOne(SubSeq(t.data, (r - 1) * t.shape[2] + 1, r * t.shape[2]))

\* C7: every output of the three heads (switch, instruction_probs,
\* object_probs, action_probs) has no negative entry and sums to 1 along its
\* last axis, for every batch element.
C7_HeadsAreDistributions ==
    /\ switch # None => Distribution(switch)
    /\ instruction_probs # None => Distribution(instruction_probs)
    /\ object_probs # None => Distribution(object_probs)
    /\ action_probs # None => Distribution(action_probs)

\* all heads ran on a batch of two, and the action distribution is not uniform
C7_Witness ==
    /\ switch.st = "ok" /\ instruction_probs.st = "ok"
    /\ object_probs.st = "ok" /\ action_probs.st = "ok"
    /\ time_encoding.shape[1] = 2
    /\ policy.num_actions = 2
    /\ action_probs.data[1] # action_probs.data[2]

\* how many times token v occurs in row b of the instruction batch x
Occurrences(x, b, v) ==
    Cardinality({i \in 1..x.shape[2] : x.data[(b - 1) * x.shape[2] + i] = v})

RECURSIVE CountedSum(_, _, _, _)
\* the sum over the tokens v of S of times[v] * weight[v][k]
CountedSum(S, times, th, k) ==
    IF S = {} THEN 0
    ELSE LET v == CHOOSE u \in S : TRUE
         IN  times[v] * EmbeddingWeight(th, v, k) + CountedSum(S \ {v}, times, th, k)

\* C8: in bag-of-words mode each row of the result is the sum of the
\* embedding vectors of that row's tokens, a token occurring k times counted
\* k times: whatever the order of the tokens, and whatever the other rows.
C8_RowIsSumOfEmbeddings ==
    (InstructionCalled /\ instr_encoder.bow /\ instr_input.shape[2] >= 1) =>
        /\ instr_encoding.st = "ok"
        /\ instr_encoding.shape = <<BatchOf(instr_input), InstrWidth>>
        /\ \A b \in 1..BatchOf(instr_input) :
             LET row == {v \in 0..(VocabularySize - 1) : Occurrences(instr_input, b, v) > 0}
                 times == [v \in row |-> Occurrences(instr_input, b, v)]
             IN  \A k \in 0..(InstrWidth - 1) :
                   instr_encoding.data[(b - 1) * InstrWidth + k + 1]
                       = CountedSum(row, times, theta, k)

\* a row holding one token twice beside a row of two different tokens
C8_Witness ==
    /\ InstructionCalled /\ instr_encoder.bow
    /\ instr_encoding.st = "ok"
    /\ instr_input.shape = <<2, 2>>
    /\ instr_input.data[1] = instr_input.data[2]
    /\ instr_input.data[3] # instr_input.data[4]

\* C9: Fusion.forward raises whenever the instruction feature's batch size
\* differs from the visual features' or its width is not 128.
C9_MismatchRaises ==
    fused_encoding.st = "ok" =>
        instr_encoding.shape = <<BatchOf(visual_encoding), InstrWidth>>

RECURSIVE StateAfter(_, _, _, _)
\* row b of the hidden ("h") or cell ("c") state after n steps from zero
StateAfter(which, x, b, n) ==
    IF n = 0 THEN [k \in 1..HiddenSize |-> 0]
    ELSE <<which, StepRow(x, b, n), StateAfter("h", x, b, n - 1), StateAfter("c", x, b, n - 1)>>

\* C10: TimeEncoder.forward runs the cell over timesteps 1..T in order from
\* all-zero hidden and cell state and returns the hidden state after step T.
C10_ReturnsFinalHidden ==
    time_encoding # None =>
        time_encoding = Tensor(<<BatchOf(fused_encoding), HiddenSize>>,
                               [b \in 1..BatchOf(fused_encoding) |->
                                   StateAfter("h", fused_encoding, b, fused_encoding.shape[2])])

====
